---- MODULE Spec2Model ----
(***************************************************************************)
(* Background model loading in scgv/qtviews/main_window.py.                *)
(*                                                                         *)
(* One UI thread runs the click handlers of OpenButtons and the slots      *)
(* connected to the worker signals; every Worker runs on a thread of the   *)
(* QThreadPool.  WorkerSignals is created on the UI thread, so a signal    *)
(* emitted by Worker.run is queued to the UI thread's event queue and its  *)
(* slot runs later on the UI thread, in emission order.                    *)
(*                                                                         *)
(* OpenButtons._build_model calls _load_error directly, i.e. on the worker *)
(* thread: its two setEnabled calls are separate steps that interleave     *)
(* with the UI thread.                                                     *)
(***************************************************************************)
EXTENDS Integers, Sequences, FiniteSets, TLC

VARIABLES
    enabled,      \* enabled flag of open_archive_action / open_dir_action
    ui_pc,        \* position of the UI thread
    ui_filename,  \* dirname / filename local of the running click handler
    workers,      \* the Worker objects handed to threadpool.start, in order
    queue,        \* signal emissions queued to the UI thread
    main_model,   \* model held by the central BaseHeatmapWidget (_main)
    ab_model,     \* ActionButtons.model
    uilog,        \* calls made by the slots on the UI thread, in order
    fv_enabled,   \* enabled flag of feature_view_action
    fv_open,      \* number of open feature view windows (HeatmapWindow)
    guide_open,   \* number of open GuideWindow dialogs
    selected_tracks,  \* model.selected_tracks of every model
    n_update,     \* calls of model.update_selected_tracks()
    n_refresh,    \* calls of window.update() by on_selected_tracks_change
    last,         \* the ActionButtons handler that ran last, and its argument
    on_controller_callbacks,  \* CanvasWindow.on_controller_callbacks
    connect,      \* the connect_controller call in progress, if any
    canvas_log    \* what CanvasWindow did, in order

loadvars == <<enabled, ui_pc, ui_filename, workers, queue, main_model,
              ab_model, uilog>>
actvars == <<fv_enabled, fv_open, guide_open, selected_tracks, n_update,
             n_refresh, last>>
canvasvars == <<on_controller_callbacks, connect, canvas_log>>

vars == <<loadvars, actvars, canvasvars>>

----------------------------------------------------------------------------
(* Bounds *)

MaxLoads == 3        \* load_model calls in one behaviour
MaxCallables == 2    \* Workers in the Worker-only specification

----------------------------------------------------------------------------
(* Values *)

NoneModel == 0                     \* Python None as a model reference
NonePath == "<None>"             \* Python None as a dialog result
GoodPaths == {"good"}              \* DataModel(path); make() succeeds
BadPaths == {"bad"}                \* DataModel(path) or make() raises
DialogResults == GoodPaths \cup BadPaths \cup {NonePath, ""}

Buttons == {"archive", "dir"}

\* what a wrapped callable may do: return a value, or raise
RetVals == {0, 7}
Raisable == {"ValueError", "SystemExit"}
\* classes that derive from BaseException but not from Exception
NonExceptionBases == {"SystemExit", "KeyboardInterrupt", "GeneratorExit"}

\* `except Exception:` catches e
ExceptExceptionM(e) == TRUE
ExceptException(e) == e \notin NonExceptionBases

\* the exception DataModel(filename) / model.make() raises, "" for none
DataModelRaises(filename) ==
    IF filename \in GoodPaths THEN "" ELSE "ValueError"

NoExc == <<>>
Event(sig, val, exc) == [sig |-> sig, val |-> val, exc |-> exc]

\* the tuple Worker.run passes to signals.error.emit
ErrorTuple(e) == <<e, e, "format_exc">>

\* Worker.__init__: fn, args and a fresh WorkerSignals.  kind "load" is a
\* Worker made by load_model (fn = _build_model, slots connected); kind
\* "callable" wraps an arbitrary callable whose behaviour is plan.
NewWorker(kind, filename, plan) ==
    [kind |-> kind, filename |-> filename, plan |-> plan,
     pc |-> "queued", fnout |-> "", ret |-> NoneModel,
     emitted |-> <<>>, escaped |-> FALSE]

NoPlan == [raises |-> "", val |-> 0]
Plans == [raises : {""} \cup Raisable, val : RetVals]

Last(s) == s[Len(s)]
IsPrefix(s, t) == Len(s) <= Len(t) /\ \A k \in 1..Len(s) : s[k] = t[k]
Count(s, sig) == Cardinality({k \in 1..Len(s) : s[k].sig = sig})

----------------------------------------------------------------------------
(* Worker.run *)

\* the events emitted by the except / else clauses of run for worker w,
\* whose fn has returned w.ret (fnout = "return") or raised w.fnout
RunClauseNoResult(w) ==
    IF w.fnout = "return" THEN <<>>
    ELSE IF ExceptException(w.fnout)
         THEN <<Event("error", 0, ErrorTuple(w.fnout))>>
         ELSE <<>>
RunClauseSwallow(w) ==
    IF w.fnout = "return" THEN <<Event("result", w.ret, NoExc)>>
    ELSE <<>>
RunClause(w) ==
    IF w.fnout = "return" THEN <<Event("result", w.ret, NoExc)>>
    ELSE IF ExceptException(w.fnout)
         THEN <<Event("error", 0, ErrorTuple(w.fnout))>>
         ELSE <<>>

\* the events emitted by the finally clause
FinallyClause == <<Event("finished", 0, NoExc)>>

\* signal emission: the slots of a load worker live on the UI thread, so each
\* emission is queued there; a bare Worker has no slot connected
Queued(i, evs) ==
    IF workers[i].kind = "load"
    THEN queue \o [k \in 1..Len(evs) |-> [w |-> i, ev |-> evs[k]]]
    ELSE queue

\* run, line 49: the wrapped callable of a bare Worker returns or raises
Call(i) ==
    /\ i \in 1..Len(workers)
    /\ workers[i].kind = "callable"
    /\ workers[i].pc = "queued"
    /\ workers' = [workers EXCEPT
          ![i].pc = "ran",
          ![i].fnout = IF workers[i].plan.raises = "" THEN "return"
                       ELSE workers[i].plan.raises,
          ![i].ret = workers[i].plan.val]
    /\ UNCHANGED <<enabled, ui_pc, ui_filename, queue, main_model, ab_model,
                   uilog>>
    /\ UNCHANGED <<actvars, canvasvars>>

\* run, lines 54-61: except Exception / else
RunEmit(i) ==
    /\ i \in 1..Len(workers)
    /\ workers[i].pc = "ran"
    /\ LET w == workers[i]
           evs == RunClause(w)
       IN /\ workers' = [workers EXCEPT
                ![i].pc = "finally",
                ![i].emitted = w.emitted \o evs,
                ![i].escaped = (w.fnout # "return"
                                /\ ~ExceptException(w.fnout))]
          /\ queue' = Queued(i, evs)
    /\ UNCHANGED <<enabled, ui_pc, ui_filename, main_model, ab_model, uilog>>
    /\ UNCHANGED <<actvars, canvasvars>>

\* run, lines 62-64: finally
RunFinally(i) ==
    /\ i \in 1..Len(workers)
    /\ workers[i].pc = "finally"
    /\ workers' = [workers EXCEPT
          ![i].pc = "done",
          ![i].emitted = workers[i].emitted \o FinallyClause]
    /\ queue' = Queued(i, FinallyClause)
    /\ UNCHANGED <<enabled, ui_pc, ui_filename, main_model, ab_model, uilog>>
    /\ UNCHANGED <<actvars, canvasvars>>

----------------------------------------------------------------------------
(* OpenButtons, worker thread *)

\* _build_model, lines 135-139: DataModel(filename); model.make().  The model
\* built by worker i is the fresh object i.
BuildModel(i) ==
    /\ i \in 1..Len(workers)
    /\ workers[i].kind = "load"
    /\ workers[i].pc = "queued"
    /\ LET e == DataModelRaises(workers[i].filename)
       IN workers' =
            IF e = ""
            THEN [workers EXCEPT ![i].pc = "ran", ![i].fnout = "return",
                                 ![i].ret = i]
            ELSE IF ExceptException(e)
            THEN [workers EXCEPT ![i].pc = "err_archive"]
            ELSE [workers EXCEPT ![i].pc = "ran", ![i].fnout = e]
    /\ UNCHANGED <<enabled, ui_pc, ui_filename, queue, main_model, ab_model,
                   uilog>>
    /\ UNCHANGED <<actvars, canvasvars>>

\* _build_model line 140 -> _load_error line 131, on the worker thread
LoadErrorArchive(i) ==
    /\ i \in 1..Len(workers)
    /\ workers[i].pc = "err_archive"
    /\ enabled' = [enabled EXCEPT !["archive"] = TRUE]
    /\ workers' = [workers EXCEPT ![i].pc = "err_dir"]
    /\ UNCHANGED <<ui_pc, ui_filename, queue, main_model, ab_model, uilog>>
    /\ UNCHANGED <<actvars, canvasvars>>

\* _load_error line 132, then _build_model line 141: return None
LoadErrorDirM(i) ==
    /\ i \in 1..Len(workers)
    /\ workers[i].pc = "err_dir"
    /\ enabled' = [enabled EXCEPT !["archive"] = TRUE]
    /\ workers' = [workers EXCEPT ![i].pc = "ran", ![i].fnout = "return",
                                  ![i].ret = NoneModel]
    /\ UNCHANGED <<ui_pc, ui_filename, queue, main_model, ab_model, uilog>>
    /\ UNCHANGED <<actvars, canvasvars>>
LoadErrorDir(i) ==
    /\ i \in 1..Len(workers)
    /\ workers[i].pc = "err_dir"
    /\ enabled' = [enabled EXCEPT !["dir"] = TRUE]
    /\ workers' = [workers EXCEPT ![i].pc = "ran", ![i].fnout = "return",
                                  ![i].ret = NoneModel]
    /\ UNCHANGED <<ui_pc, ui_filename, queue, main_model, ab_model, uilog>>
    /\ UNCHANGED <<actvars, canvasvars>>

----------------------------------------------------------------------------
(* OpenButtons, UI thread *)

Dialogs == {"dialog_dir", "dialog_archive"}

\* a triggered QAction: only an enabled action can be triggered, and only
\* when the UI thread is in its event loop with no modal dialog open
OnOpenDirectoryClick ==
    /\ ui_pc = "idle"
    /\ enabled["dir"]
    /\ Len(workers) < MaxLoads
    /\ ui_pc' = "dialog_dir"
    /\ UNCHANGED <<enabled, ui_filename, workers, queue, main_model, ab_model,
                   uilog>>
    /\ UNCHANGED <<actvars, canvasvars>>

OnOpenArchiveClick ==
    /\ ui_pc = "idle"
    /\ enabled["archive"]
    /\ Len(workers) < MaxLoads
    /\ ui_pc' = "dialog_archive"
    /\ UNCHANGED <<enabled, ui_filename, workers, queue, main_model, ab_model,
                   uilog>>
    /\ UNCHANGED <<actvars, canvasvars>>

\* lines 101 and 111
IsCancelledM(name) == name = NonePath
IsCancelled(name) == name = NonePath \/ name = ""

\* the file dialog returns name; lines 101-104 and 111-114
DialogReturn ==
    /\ ui_pc \in Dialogs
    /\ \E name \in DialogResults :
          /\ ui_filename' = name
          /\ ui_pc' = IF IsCancelled(name) THEN "idle" ELSE "load_archive"
    /\ UNCHANGED <<enabled, workers, queue, main_model, ab_model, uilog>>
    /\ UNCHANGED <<actvars, canvasvars>>

\* load_model line 118
LoadModelDisableArchive ==
    /\ ui_pc = "load_archive"
    /\ enabled' = [enabled EXCEPT !["archive"] = FALSE]
    /\ ui_pc' = "load_dir"
    /\ UNCHANGED <<ui_filename, workers, queue, main_model, ab_model, uilog>>
    /\ UNCHANGED <<actvars, canvasvars>>

\* load_model line 119
LoadModelDisableDir ==
    /\ ui_pc = "load_dir"
    /\ enabled' = [enabled EXCEPT !["dir"] = FALSE]
    /\ ui_pc' = "load_start"
    /\ UNCHANGED <<ui_filename, workers, queue, main_model, ab_model, uilog>>
    /\ UNCHANGED <<actvars, canvasvars>>

\* load_model lines 121-125
LoadModelStart ==
    /\ ui_pc = "load_start"
    /\ workers' = Append(workers, NewWorker("load", ui_filename, NoPlan))
    /\ ui_pc' = "idle"
    /\ UNCHANGED <<enabled, ui_filename, queue, main_model, ab_model, uilog>>
    /\ UNCHANGED <<actvars, canvasvars>>

\* MainWindow.set_model on the pair <<_main's model, ActionButtons.model>>
MainWindowSetModelNoGuard(models, model) == <<model, model>>
MainWindowSetModelNoButtons(models, model) ==
    IF model = NoneModel THEN models ELSE <<model, models[2]>>
MainWindowSetModel(models, model) ==
    IF model = NoneModel THEN models ELSE <<model, model>>

\* the UI event loop (also the one a modal file dialog runs) delivers the
\* oldest queued emission to its slot: result -> MainWindow.set_model,
\* error -> _load_error, finished -> _load_complete -> MainWindow.update
HandleEvent ==
    /\ ui_pc \in {"idle"} \cup Dialogs
    /\ queue # <<>>
    /\ LET q == Head(queue)
           sig == q.ev.sig
           models == IF sig = "result"
                     THEN MainWindowSetModel(<<main_model, ab_model>>, q.ev.val)
                     ELSE <<main_model, ab_model>>
       IN /\ main_model' = models[1]
          /\ ab_model' = models[2]
          /\ enabled' = IF sig = "error"
                        THEN [b \in Buttons |-> TRUE]
                        ELSE enabled
          /\ uilog' = Append(uilog,
                [op |-> CASE sig = "result" -> "set_model"
                          [] sig = "error" -> "_load_error"
                          [] OTHER -> "update",
                 w |-> q.w, arg |-> q.ev.val])
    /\ queue' = Tail(queue)
    /\ UNCHANGED <<ui_pc, ui_filename, workers>>
    /\ UNCHANGED <<actvars, canvasvars>>

----------------------------------------------------------------------------
(* ActionButtons, UI thread *)

MaxWindows == 2      \* windows or dialogs of one kind open at a time
MaxUpdates == 2      \* update_selected_tracks calls in one behaviour

\* the models MainWindow.set_model may be handed, by what their data holds
ActionModels == 1..4
\* model.data.features_df is not None
HasFeaturesDf(m) == m \in {1, 3}
\* model.data.guide_df is not None
HasGuideDf(m) == m \in {1, 2}

\* values of selected_tracks
InitialTracks == <<>>
Selections == {<<>>, <<"t1">>, <<"t1", "t2">>}

Handled(op, arg, same) == [op |-> op, arg |-> arg, same |-> same]

\* ActionButtons.__init__
InitActions ==
    /\ fv_enabled = TRUE
    /\ fv_open = 0
    /\ guide_open = 0
    /\ selected_tracks = [m \in ActionModels |-> InitialTracks]
    /\ n_update = 0
    /\ n_refresh = 0
    /\ last = Handled("__init__", <<>>, FALSE)

\* the 'result' slot: MainWindow.set_model(model) is called with a loaded
\* model, or with the None a failing load delivers
SetModel ==
    /\ \E m \in ActionModels \cup {NoneModel} :
          LET models == MainWindowSetModel(<<main_model, ab_model>>, m)
          IN /\ main_model' = models[1]
             /\ ab_model' = models[2]
    /\ last' = Handled("set_model", <<>>, FALSE)
    /\ UNCHANGED <<enabled, ui_pc, ui_filename, workers, queue, uilog>>
    /\ UNCHANGED <<fv_enabled, fv_open, guide_open, selected_tracks, n_update,
                   n_refresh>>
    /\ UNCHANGED canvasvars

\* on_feature_view_action on st = [enabled, open]: the enabled flag of
\* feature_view_action and the number of open feature view windows
FeatureViewActionNoDisable(model, st) ==
    IF model = NoneModel THEN st
    ELSE IF ~HasFeaturesDf(model) THEN st
    ELSE [enabled |-> st.enabled, open |-> st.open + 1]
FeatureViewActionNoDataCheck(model, st) ==
    IF model = NoneModel THEN st
    ELSE [enabled |-> FALSE, open |-> st.open + 1]
FeatureViewAction(model, st) ==
    IF model = NoneModel THEN st
    ELSE IF ~HasFeaturesDf(model) THEN st
    ELSE [enabled |-> FALSE, open |-> st.open + 1]

\* 'Feature View' is triggered; a disabled action cannot be triggered.
\* FeaturematModel(model).make() is taken to succeed: an exception leaving a
\* slot ends the application.
OnFeatureViewAction ==
    /\ fv_enabled
    /\ fv_open < MaxWindows
    /\ LET st == FeatureViewAction(ab_model,
                     [enabled |-> fv_enabled, open |-> fv_open])
       IN /\ fv_enabled' = st.enabled
          /\ fv_open' = st.open
    /\ last' = Handled("feature_view", <<>>, FALSE)
    /\ UNCHANGED loadvars
    /\ UNCHANGED <<guide_open, selected_tracks, n_update, n_refresh>>
    /\ UNCHANGED canvasvars

\* on_feature_view_closing
OnFeatureViewClosing(st) == [st EXCEPT !.enabled = TRUE]

\* a feature view window is closed: it emits 'closing', whose slot is
\* on_feature_view_closing
FeatureViewClose ==
    /\ fv_open > 0
    /\ LET st == OnFeatureViewClosing(
                     [enabled |-> fv_enabled, open |-> fv_open])
       IN /\ fv_enabled' = st.enabled
          /\ fv_open' = st.open - 1
    /\ last' = Handled("feature_view_closing", <<>>, FALSE)
    /\ UNCHANGED loadvars
    /\ UNCHANGED <<guide_open, selected_tracks, n_update, n_refresh>>
    /\ UNCHANGED canvasvars

\* on_configure_tracks_action_action on the number of open GuideWindows
ConfigureTracksAction(model, open) ==
    IF model = NoneModel THEN open
    ELSE IF ~HasGuideDf(model) THEN open
    ELSE open + 1

\* 'Configure Tracks' is triggered
OnConfigureTracksAction ==
    /\ guide_open < MaxWindows
    /\ guide_open' = ConfigureTracksAction(ab_model, guide_open)
    /\ last' = Handled("configure_tracks", <<>>, FALSE)
    /\ UNCHANGED loadvars
    /\ UNCHANGED <<fv_enabled, fv_open, selected_tracks, n_update, n_refresh>>
    /\ UNCHANGED canvasvars

\* a GuideWindow is closed
GuideClose ==
    /\ guide_open > 0
    /\ guide_open' = guide_open - 1
    /\ last' = Handled("guide_closing", <<>>, FALSE)
    /\ UNCHANGED loadvars
    /\ UNCHANGED <<fv_enabled, fv_open, selected_tracks, n_update, n_refresh>>
    /\ UNCHANGED canvasvars

\* on_selected_tracks_change on the model's current selection: the selection
\* the model holds afterwards and the calls made
SelectedTracksChangeNoCheck(current, selected) ==
    [tracks |-> selected, updates |-> 1, refreshes |-> 1]
SelectedTracksChange(current, selected) ==
    IF selected = current
    THEN [tracks |-> current, updates |-> 0, refreshes |-> 0]
    ELSE [tracks |-> selected, updates |-> 1, refreshes |-> 1]

\* an open GuideWindow emits selected_tracks_change(selected_tracks); the
\* slot works on ActionButtons.model, which is not None once a GuideWindow
\* has been opened
OnSelectedTracksChange ==
    /\ guide_open > 0
    /\ n_update < MaxUpdates
    /\ \E sel \in Selections :
          LET r == SelectedTracksChange(selected_tracks[ab_model], sel)
          IN /\ selected_tracks' =
                    [selected_tracks EXCEPT ![ab_model] = r.tracks]
             /\ n_update' = n_update + r.updates
             /\ n_refresh' = n_refresh + r.refreshes
             /\ last' = Handled("selected_tracks_change", sel,
                                sel = selected_tracks[ab_model])
    /\ UNCHANGED loadvars
    /\ UNCHANGED <<fv_enabled, fv_open, guide_open>>
    /\ UNCHANGED canvasvars

----------------------------------------------------------------------------
(* CanvasWindow (cnviewer/tkutils/canvas_ui.py), one Tk thread *)

MaxCallbacks == 3    \* register_on_controller_callback calls
MaxConnects == 2     \* connect_controller calls

Callbacks == {"cb1", "cb2"}
Controllers == {"ctl1", "ctl2"}

Did(kind, cb, controller) ==
    [kind |-> kind, cb |-> cb, controller |-> controller]
KindCount(log, kind) ==
    Cardinality({k \in 1..Len(log) : log[k].kind = kind})

NotConnecting == [active |-> FALSE, controller |-> "", idx |-> 0]

\* CanvasWindow.__init__, line 80
InitCanvas ==
    /\ on_controller_callbacks = <<>>
    /\ connect = NotConnecting
    /\ canvas_log = <<>>

\* register_on_controller_callback(cb); a callback may also register one
\* while connect_controller is calling it
RegisterOnControllerCallback ==
    /\ Len(on_controller_callbacks) < MaxCallbacks
    /\ \E cb \in Callbacks :
          /\ on_controller_callbacks' = Append(on_controller_callbacks, cb)
          /\ canvas_log' = Append(canvas_log, Did("register", cb, ""))
    /\ UNCHANGED connect
    /\ UNCHANGED <<loadvars, actvars>>

\* the for loop of connect_controller, at position idx of cbs, is over
LoopDoneEarly(cbs, idx) == idx >= Len(cbs)
LoopDone(cbs, idx) == idx > Len(cbs)

\* connect_controller(controller) is called, line 85
ConnectController ==
    /\ ~connect.active
    /\ KindCount(canvas_log, "connect") < MaxConnects
    /\ \E c \in Controllers :
          /\ connect' = [active |-> TRUE, controller |-> c, idx |-> 1]
          /\ canvas_log' = Append(canvas_log, Did("connect", "", c))
    /\ UNCHANGED on_controller_callbacks
    /\ UNCHANGED <<loadvars, actvars>>

\* lines 86-87: the for loop takes the next list element, if there is one,
\* and calls it; the callback is taken to return
ConnectCall ==
    /\ connect.active
    /\ ~LoopDone(on_controller_callbacks, connect.idx)
    /\ canvas_log' = Append(canvas_log,
          Did("call", on_controller_callbacks[connect.idx],
              connect.controller))
    /\ connect' = [connect EXCEPT !.idx = connect.idx + 1]
    /\ UNCHANGED on_controller_callbacks
    /\ UNCHANGED <<loadvars, actvars>>

\* line 88: the loop is over, self.canvas.draw()
ConnectDraw ==
    /\ connect.active
    /\ LoopDone(on_controller_callbacks, connect.idx)
    /\ canvas_log' = Append(canvas_log, Did("draw", "", connect.controller))
    /\ connect' = NotConnecting
    /\ UNCHANGED on_controller_callbacks
    /\ UNCHANGED <<loadvars, actvars>>

----------------------------------------------------------------------------
(* Specifications *)

\* MainWindow.__init__: both open actions enabled, no model, no worker
Init ==
    /\ enabled = [b \in Buttons |-> TRUE]
    /\ ui_pc = "idle"
    /\ ui_filename = NonePath
    /\ workers = <<>>
    /\ queue = <<>>
    /\ main_model = NoneModel
    /\ ab_model = NoneModel
    /\ uilog = <<>>
    /\ InitActions
    /\ InitCanvas

Next ==
    \/ OnOpenDirectoryClick
    \/ OnOpenArchiveClick
    \/ DialogReturn
    \/ LoadModelDisableArchive
    \/ LoadModelDisableDir
    \/ LoadModelStart
    \/ HandleEvent
    \/ \E i \in 1..Len(workers) : BuildModel(i)
    \/ \E i \in 1..Len(workers) : LoadErrorArchive(i)
    \/ \E i \in 1..Len(workers) : LoadErrorDir(i)
    \/ \E i \in 1..Len(workers) : RunEmit(i)
    \/ \E i \in 1..Len(workers) : RunFinally(i)

Spec == Init /\ [][Next]_vars

\* Workers wrapping arbitrary callables, started on the thread pool
InitWorker ==
    /\ enabled = [b \in Buttons |-> TRUE]
    /\ ui_pc = "idle"
    /\ ui_filename = NonePath
    /\ \E n \in 1..MaxCallables :
          workers \in [1..n -> {NewWorker("callable", "", p) : p \in Plans}]
    /\ queue = <<>>
    /\ main_model = NoneModel
    /\ ab_model = NoneModel
    /\ uilog = <<>>
    /\ InitActions
    /\ InitCanvas

NextWorker ==
    \/ \E i \in 1..Len(workers) : Call(i)
    \/ \E i \in 1..Len(workers) : RunEmit(i)
    \/ \E i \in 1..Len(workers) : RunFinally(i)

SpecWorker == InitWorker /\ [][NextWorker]_vars

\* the ActionButtons toolbar of a MainWindow whose loads deliver models
NextActions ==
    \/ SetModel
    \/ OnFeatureViewAction
    \/ FeatureViewClose
    \/ OnConfigureTracksAction
    \/ GuideClose
    \/ OnSelectedTracksChange

SpecActions == Init /\ [][NextActions]_vars

\* a CanvasWindow, its registered callbacks and its controllers
NextCanvas ==
    \/ RegisterOnControllerCallback
    \/ ConnectController
    \/ ConnectCall
    \/ ConnectDraw

SpecCanvas == Init /\ [][NextCanvas]_vars


----------------------------------------------------------------------------
(* Properties *)

Finished == Event("finished", 0, NoExc)
LoadIdx == {i \in 1..Len(workers) : workers[i].kind = "load"}
\* load i is a load whose model construction succeeds / raises
GoodLoad(i) == i \in LoadIdx /\ DataModelRaises(workers[i].filename) = ""
FailingLoad(i) == i \in LoadIdx /\ DataModelRaises(workers[i].filename) # ""
\* the UI thread is inside load_model
InLoadModel == ui_pc \in {"load_archive", "load_dir", "load_start"}
BothEnabled == enabled["archive"] /\ enabled["dir"]
BothDisabled == ~enabled["archive"] /\ ~enabled["dir"]
\* the value the wrapped callable of worker i returns, when it returns
Returned(i) ==
    IF workers[i].kind = "callable" THEN workers[i].plan.val
    ELSE IF GoodLoad(i) THEN i ELSE NoneModel

\* C1: a Worker whose wrapped callable returned normally emits one 'result'
\* carrying the returned value, then one 'finished', and never 'error'; at
\* every moment what it has emitted is a prefix of <<result, finished>>.
C1_ResultThenFinished ==
    \A i \in 1..Len(workers) :
        LET w == workers[i]
            expected == <<Event("result", Returned(i), NoExc), Finished>>
        IN w.fnout = "return" =>
             /\ IsPrefix(w.emitted, expected)
             /\ w.pc = "done" => w.emitted = expected
             /\ ~w.escaped

C1_Witness ==
    \E i \in 1..Len(workers) :
        /\ workers[i].kind = "callable"
        /\ workers[i].fnout = "return"
        /\ workers[i].pc = "done"
        /\ workers[i].plan.val # 0

\* C2 as stated: a Worker whose wrapped callable raised (anything) has, once
\* run is over, emitted one 'error' with (type, value, trace), then one
\* 'finished', no 'result', and the exception did not escape run.
C2_AnyRaiseCaught ==
    \A i \in 1..Len(workers) :
        LET w == workers[i]
        IN (w.fnout \notin {"", "return"} /\ w.pc = "done") =>
             /\ w.emitted = <<Event("error", 0, ErrorTuple(w.fnout)), Finished>>
             /\ ~w.escaped

\* C2 amended: a Worker whose wrapped callable raised an exception derived
\* from Exception emits one 'error' with (type, value, trace), then one
\* 'finished', no 'result', and the exception does not escape run.
C2_ExceptionCaught ==
    \A i \in 1..Len(workers) :
        LET w == workers[i]
            expected == <<Event("error", 0, ErrorTuple(w.fnout)), Finished>>
        IN (w.fnout \notin {"", "return"} \cup NonExceptionBases) =>
             /\ IsPrefix(w.emitted, expected)
             /\ w.pc = "done" => w.emitted = expected
             /\ ~w.escaped

C2_Witness ==
    \E i \in 1..Len(workers) :
        /\ workers[i].fnout = "ValueError"
        /\ workers[i].pc = "done"

\* C3: once the 'finished' event of a successful load has been handled (and
\* that load is the latest one, the UI thread being back in its event loop),
\* both open buttons are enabled again.
C3_ReenabledAfterSuccess ==
    \A i \in 1..Len(workers) :
        ( /\ GoodLoad(i)
          /\ i = Len(workers)
          /\ ui_pc = "idle"
          /\ \E k \in 1..Len(uilog) : uilog[k].op = "update" /\ uilog[k].w = i )
        => BothEnabled

\* C4: the worker of a failing load has, once run is over, emitted exactly
\* one 'error' event and exactly one 'finished' event.
C4_FailingLoadEmitsError ==
    \A i \in 1..Len(workers) :
        (FailingLoad(i) /\ workers[i].pc = "done") =>
            /\ Count(workers[i].emitted, "error") = 1
            /\ Count(workers[i].emitted, "finished") = 1

C6_CancelIsNoOp ==
    [][ (ui_pc \in Dialogs /\ ui_pc' \notin Dialogs
         /\ ui_filename' \in {NonePath, ""})
        => (ui_pc' = "idle"
            /\ UNCHANGED <<workers, enabled, main_model, ab_model>>) ]_vars

C6_Witness ==
    /\ ui_pc = "idle"
    /\ ui_filename = ""
    /\ Len(workers) >= 1
    /\ \E i \in 1..Len(workers) : workers[i].pc # "done"

\* C7: while a load's worker has not yet emitted 'finished', both open
\* buttons are disabled.
C7_DisabledWhileLoading ==
    \A i \in LoadIdx : workers[i].pc # "done" => BothDisabled

\* C8: at most one worker started by load_model is unfinished at any time.
C8_OneLoadAtATime ==
    Cardinality({i \in LoadIdx : workers[i].pc # "done"}) <= 1

\* C9: the window refresh made for a successful load's 'finished' event comes
\* after the set_model call made for its 'result' event with the model that
\* load built, and right after that set_model call both the central widget
\* and ActionButtons.model refer to that model.
C9_ModelReplacedBeforeRefresh ==
    /\ \A k \in 1..Len(uilog) :
          (uilog[k].op = "update" /\ GoodLoad(uilog[k].w)) =>
              \E j \in 1..(k-1) :
                  uilog[j] = [op |-> "set_model", w |-> uilog[k].w,
                              arg |-> uilog[k].w]
    /\ (uilog # <<>> /\ Last(uilog).op = "set_model"
           /\ GoodLoad(Last(uilog).w)) =>
          /\ Last(uilog).arg = Last(uilog).w
          /\ main_model = Last(uilog).w
          /\ ab_model = Last(uilog).w

C9_Witness ==
    /\ uilog # <<>>
    /\ Last(uilog).op = "update"
    /\ GoodLoad(Last(uilog).w)
    /\ main_model = Last(uilog).w
    /\ ab_model = Last(uilog).w

\* C10: the model held by the central widget and ActionButtons.model change
\* only when the 'result' event of a successful load is handled; no step of a
\* failing load, and no handling of its events, changes either.
C10_FailingLoadKeepsModel ==
    [][ (main_model' # main_model \/ ab_model' # ab_model) =>
          /\ queue # <<>>
          /\ queue' = Tail(queue)
          /\ Head(queue).ev.sig = "result"
          /\ GoodLoad(Head(queue).w) ]_vars

C10_Witness ==
    /\ uilog # <<>>
    /\ Last(uilog).op = "set_model"
    /\ FailingLoad(Last(uilog).w)
    /\ Last(uilog).arg = NoneModel
    /\ main_model # NoneModel
    /\ ab_model = main_model

\* C11: whenever neither load_model nor _load_error is between its two
\* setEnabled calls, 'Open Directory' and 'Open Archive' have the same
\* enabled state.
C11_EnabledTogether ==
    ( /\ ui_pc # "load_dir"
      /\ \A i \in LoadIdx : workers[i].pc # "err_dir" )
    => enabled["archive"] = enabled["dir"]

\* C12: 'Feature View' is disabled exactly while a feature view window is
\* open, and at most one feature view window is open.
C12_FeatureViewButton ==
    /\ fv_open <= 1
    /\ fv_enabled <=> (fv_open = 0)

C12_Witness ==
    /\ last.op = "feature_view_closing"
    /\ fv_enabled
    /\ fv_open = 0

\* C13: a run of on_feature_view_action while ActionButtons.model is None or
\* its features_df is None, and a run of on_configure_tracks_action_action
\* while the model is None or its guide_df is None, opens no window or dialog
\* and leaves the enabled state of 'Feature View' as it was.
C13_NoOpWithoutData ==
    [][ /\ ( /\ last'.op = "feature_view"
             /\ actvars' # actvars
             /\ (ab_model = NoneModel \/ ~HasFeaturesDf(ab_model)) )
           => UNCHANGED <<fv_open, guide_open, fv_enabled>>
        /\ ( /\ last'.op = "configure_tracks"
             /\ actvars' # actvars
             /\ (ab_model = NoneModel \/ ~HasGuideDf(ab_model)) )
           => UNCHANGED <<fv_open, guide_open, fv_enabled>> ]_vars

C13_Witness ==
    /\ last.op = "feature_view"
    /\ ab_model # NoneModel
    /\ ~HasFeaturesDf(ab_model)
    /\ fv_open = 0
    /\ fv_enabled
    /\ guide_open > 0

\* C14: a run of on_selected_tracks_change with the selection the model
\* already holds changes nothing and makes no update_selected_tracks or
\* window.update call; with any other selection it stores the selection and
\* makes exactly one call of each.  So after a delivery the model holds the
\* delivered selection, and delivering it again updates nothing.
C14_SelectedTracksIdempotent ==
    [][ ( /\ last'.op = "selected_tracks_change"
          /\ actvars' # actvars )
        => /\ selected_tracks'[ab_model] = last'.arg
           /\ \A m \in ActionModels \ {ab_model} :
                 selected_tracks'[m] = selected_tracks[m]
           /\ IF last'.arg = selected_tracks[ab_model]
              THEN UNCHANGED <<selected_tracks, n_update, n_refresh>>
              ELSE /\ n_update' = n_update + 1
                   /\ n_refresh' = n_refresh + 1 ]_vars

C14_Witness ==
    /\ last.op = "selected_tracks_change"
    /\ last.same
    /\ last.arg # InitialTracks
    /\ selected_tracks[ab_model] = last.arg
    /\ n_update = 1
    /\ n_refresh = 1

IsRegister(e) == e.kind = "register"
IsCall(e) == e.kind = "call"
CbsOf(log) == [k \in 1..Len(log) |-> log[k].cb]

\* C15: when connect_controller draws the canvas, the callbacks it has
\* called since it was entered are exactly the callbacks registered so far,
\* once per registration and in registration order, each with the controller
\* of this call; and a callback is only ever called inside a
\* connect_controller call, with that call's controller, so a callback
\* registered after a call has drawn is not called for it.
C15_ConnectController ==
    \A p \in 1..Len(canvas_log) :
        /\ canvas_log[p].kind = "draw" =>
             \E q \in 1..(p-1) :
                 /\ canvas_log[q].kind = "connect"
                 /\ canvas_log[q].controller = canvas_log[p].controller
                 /\ \A r \in (q+1)..(p-1) :
                       canvas_log[r].kind \in {"call", "register"}
                 /\ LET calls == SelectSeq(SubSeq(canvas_log, q+1, p-1),
                                           IsCall)
                        regs == SelectSeq(SubSeq(canvas_log, 1, p-1),
                                          IsRegister)
                    IN /\ CbsOf(calls) = CbsOf(regs)
                       /\ \A k \in 1..Len(calls) :
                             calls[k].controller = canvas_log[q].controller
        /\ canvas_log[p].kind = "call" =>
             \E q \in 1..(p-1) :
                 /\ canvas_log[q].kind = "connect"
                 /\ canvas_log[q].controller = canvas_log[p].controller
                 /\ \A r \in (q+1)..(p-1) :
                       canvas_log[r].kind \in {"call", "register"}

C15_Witness ==
    \E p1, p2 \in 1..Len(canvas_log) :
        /\ p1 < p2
        /\ canvas_log[p1].kind = "draw"
        /\ canvas_log[p2].kind = "draw"
        /\ canvas_log[p1].controller # canvas_log[p2].controller
        /\ \E k \in 1..(p1-1) : canvas_log[k].kind = "call"
        /\ \E k \in (p1+1)..(p2-1) : canvas_log[k].kind = "register"
====
